---- MODULE Spec2Model ----
(***************************************************************************)
(* pywinssh: the terminal stream interpreter (gui/terminal_widget.py) and  *)
(* the session I/O engine (ssh/session.py).                                *)
(*                                                                         *)
(*   SpecTerm  the terminal widget fed with the text of successive reads   *)
(*   Spec      one SSHSession object: the caller's thread, the receive     *)
(*             pumps and the send pumps                                    *)
(***************************************************************************)
EXTENDS Integers, Sequences, FiniteSets, TLC

VARIABLES
    \* ---- TerminalWidget ----
    inbuf,            \* bytes the channel holds, not yet read by recv(4096)
    narrived,         \* number of fragments the remote end has written
    chunks,           \* the decoded texts handed to append_text, in order
    parts,            \* what _parse_ansi returned for the last chunk
    current_format,   \* TerminalWidget._current_format: [fg, bg]
    runs,             \* the cursor.insertText calls: text with its format
    nconnects,        \* connections the main window has established
    \* ---- SSHSession ----
    running,          \* self._running
    channel,          \* self.channel: NoChannel (None) or the number of the shell
    receive_thread,   \* self._receive_thread: NoThread or the pump's number
    send_thread,      \* self._send_thread
    send_queue,       \* self._send_queue
    rpc,              \* position of each receive pump in _receive_loop
    rexit,            \* how each receive pump left its loop
    spc,              \* position of each send pump in _send_loop
    sdata,            \* the buffer a send pump took from the queue
    sexit,            \* how each send pump left its loop
    cpc,              \* position of the caller's thread (inside close(), or idle)
    \* ---- the channel and the remote end ----
    avail,            \* reads the current channel has ready
    nproduced,        \* chunks the remote end has produced on the current channel
    exit_ready,       \* the current channel's exit status is ready
    exit_code,        \* ... and its value
    chan_closes,      \* channel.close() calls on the current channel
    \* ---- what the session did ----
    events,           \* the signals emitted, in order
    written,          \* the buffers channel.send() took, in order
    nreads,           \* non-empty reads returned by channel.recv()
    nsent,            \* buffers send_data() has put on the queue
    nstarts,          \* start_session() calls that found the session not running
    ncloses,          \* close() calls begun
    nfaults,          \* channel operations that raised
    close_returned,   \* close() has returned and start_session() was not called since
    call,             \* the last call of the caller's thread and how it went
    \* ---- MainWindow ----
    ssh_session,      \* self.ssh_session: NoSession (None) or the number of the SSHSession
    ssh_client,       \* self.ssh_client: NoClient (None) or the number of the SSHClient
    disconnect_enabled, \* disconnect_action and toolbar_disconnect_action are enabled
    connect_enabled,  \* toolbar_connect_action is enabled
    gui_queue,        \* signals of the receive threads queued for the GUI thread
    dialogs,          \* QMessageBox.warning calls of _on_ssh_error that have not returned
    pump_alive,       \* the receive thread of each SSHSession is in its loop
    closed_sessions,  \* the SSHSession objects close() was called on
    closed_clients    \* the SSHClient objects close() was called on

termvars == <<inbuf, narrived, chunks, parts, current_format, runs, nconnects>>

sessstate ==
    <<running, channel, receive_thread, send_thread, send_queue, rpc, rexit, spc,
      sdata, sexit, cpc, avail, nproduced, exit_ready, exit_code, chan_closes,
      events, written, nreads, nsent, nstarts, ncloses, nfaults, close_returned>>

sessvars == <<sessstate, call>>

appvars ==
    <<ssh_session, ssh_client, disconnect_enabled, connect_enabled, gui_queue,
      dialogs, pump_alive, closed_sessions, closed_clients>>

vars == <<termvars, sessvars, appvars>>

----------------------------------------------------------------------------
(* Bounds *)

\* fragments the remote end writes in one behaviour of SpecTerm
MaxFrags == 3
\* start_session() calls that find the one SSHSession object not running
MaxStarts == 2
\* buffers accepted by send_data()
MaxSend == 2
\* chunks the remote end produces on one channel
MaxRecv == 1
\* close() calls
MaxCloses == 2
\* channel operations (and invoke_shell calls) that raise
MaxFaults == 1
\* start_session(), send_data() and close() calls in one behaviour
MaxCalls == 4
\* connections the main window establishes in one behaviour of SpecConn
MaxConnects == 2

----------------------------------------------------------------------------
(* Characters.  A character is a string naming it; a text is a sequence   *)
(* of characters.  ESC is 0x1b, BEL 0x07, LF the newline.  C3 and A9 are  *)
(* the two bytes of the UTF-8 encoding of U+00E9; EACUTE is that          *)
(* character and FFFD the replacement character.                          *)

ESC == "ESC"
BEL == "BEL"
LF == "LF"
C3 == "C3"
A9 == "A9"
EACUTE == "U+00E9"
FFFD == "U+FFFD"

\* ord(c) < 32 and c not in '\n\r\t'
IsControl(c) == c \in {ESC, BEL}

\* text[j] in 'HfABCDEFGHJKSTm@'
IsCommandChar(c) ==
    c \in {"H", "f", "A", "B", "C", "D", "E", "F", "G", "J", "K", "S", "T", "m", "@"}

Red == <<205, 0, 0>>
DefaultFg == <<229, 229, 229>>
DefaultBg == <<0, 0, 0>>

ANSI_COLORS ==
    (<<"3", "0">> :> <<0, 0, 0>>) @@ (<<"3", "1">> :> <<205, 0, 0>>) @@
    (<<"3", "2">> :> <<0, 205, 0>>) @@ (<<"3", "3">> :> <<205, 205, 0>>) @@
    (<<"3", "4">> :> <<0, 0, 238>>) @@ (<<"3", "5">> :> <<205, 0, 205>>) @@
    (<<"3", "6">> :> <<0, 205, 205>>) @@ (<<"3", "7">> :> <<229, 229, 229>>) @@
    (<<"9", "0">> :> <<127, 127, 127>>) @@ (<<"9", "1">> :> <<255, 0, 0>>) @@
    (<<"9", "2">> :> <<0, 255, 0>>) @@ (<<"9", "3">> :> <<255, 255, 0>>) @@
    (<<"9", "4">> :> <<92, 92, 255>>) @@ (<<"9", "5">> :> <<255, 0, 255>>) @@
    (<<"9", "6">> :> <<0, 255, 255>>) @@ (<<"9", "7">> :> <<255, 255, 255>>)

\* code in self.ANSI_COLORS
InAnsiColors(code) == code \in DOMAIN ANSI_COLORS

\* the parts _parse_ansi returns: a text, or a formatting instruction
TextPart(s) == [k |-> "text", s |-> s, c |-> <<>>]
FgPart(c) == [k |-> "fg", s |-> <<>>, c |-> c]
BgPart(c) == [k |-> "bg", s |-> <<>>, c |-> c]
ResetPart == [k |-> "reset", s |-> <<>>, c |-> <<>>]

----------------------------------------------------------------------------
(* data.decode('utf-8', errors='replace') on one read *)

RECURSIVE Decode(_)
Decode(b) ==
    IF b = <<>> THEN <<>>
    ELSE IF Head(b) = C3
         THEN IF Len(b) >= 2 /\ b[2] = A9
              THEN <<EACUTE>> \o Decode(SubSeq(b, 3, Len(b)))
              ELSE <<FFFD>> \o Decode(Tail(b))
         ELSE IF Head(b) = A9
              THEN <<FFFD>> \o Decode(Tail(b))
              ELSE <<Head(b)>> \o Decode(Tail(b))

----------------------------------------------------------------------------
(* _parse_ansi.  Indices are 1-based: text[i] of the code is text[i + 1]  *)
(* here, and `i < len(text)` is `i <= Len(text)`.                          *)

\* code_str.split(';')
RECURSIVE SplitSemi(_, _)
SplitSemi(s, acc) ==
    IF s = <<>> THEN <<acc>>
    ELSE IF Head(s) = ";"
         THEN <<acc>> \o SplitSemi(Tail(s), <<>>)
         ELSE SplitSemi(Tail(s), Append(acc, Head(s)))

\* the background branch: elif code.startswith('4') and len(code) == 2
BgBranch(code) ==
    IF InAnsiColors(<<code[2]>>) THEN <<BgPart(ANSI_COLORS[<<code[2]>>])>> ELSE <<>>

\* CodeParts without the `elif code in self.ANSI_COLORS` branch: a two-digit
\* code is looked up by its second digit only
CodeParts_DigitLookup(code) ==
    IF code = <<"0">> \/ code = <<>> THEN <<ResetPart>>
    ELSE IF Len(code) = 2 /\ code[1] = "3"
         THEN IF InAnsiColors(<<code[2]>>)
              THEN <<FgPart(ANSI_COLORS[<<code[2]>>])>> ELSE <<>>
    ELSE IF Len(code) = 2 /\ code[1] = "4" THEN BgBranch(code)
    ELSE <<>>

\* CodeParts with a final `else` that resets on a code it does not know
CodeParts_UnknownResets(code) ==
    IF code = <<"0">> \/ code = <<>> THEN <<ResetPart>>
    ELSE IF InAnsiColors(code) THEN <<FgPart(ANSI_COLORS[code])>>
    ELSE IF Len(code) = 2 /\ code[1] = "3"
         THEN IF InAnsiColors(<<code[2]>>)
              THEN <<FgPart(ANSI_COLORS[<<code[2]>>])>> ELSE <<>>
    ELSE IF Len(code) = 2 /\ code[1] = "4" THEN BgBranch(code)
    ELSE <<ResetPart>>

\* the parts one code of an 'm' sequence appends
CodeParts(code) ==
    IF code = <<"0">> \/ code = <<>> THEN <<ResetPart>>
    ELSE IF InAnsiColors(code) THEN <<FgPart(ANSI_COLORS[code])>>
    ELSE IF Len(code) = 2 /\ code[1] = "3"
         THEN IF InAnsiColors(<<code[2]>>)
              THEN <<FgPart(ANSI_COLORS[<<code[2]>>])>> ELSE <<>>
    ELSE IF Len(code) = 2 /\ code[1] = "4" THEN BgBranch(code)
    ELSE <<>>

\* for code in codes: ...
RECURSIVE CodesParts(_)
CodesParts(codes) ==
    IF codes = <<>> THEN <<>>
    ELSE CodeParts(Head(codes)) \o CodesParts(Tail(codes))

\* text[i] == '\x1b' and i + 1 < len(text) and text[i + 1] == '['
IsSeqStart(text, i) ==
    i <= Len(text) /\ text[i] = ESC /\ i + 1 <= Len(text) /\ text[i + 1] = "["

\* while j < len(text) and text[j] not in 'HfABCDEFGHJKSTm@': j += 1
RECURSIVE FindCommand(_, _)
FindCommand(text, j) ==
    IF j <= Len(text) /\ ~IsCommandChar(text[j]) THEN FindCommand(text, j + 1) ELSE j

\* TextEnd without the `ord(text[i]) < 32` test of lines 163-164
RECURSIVE TextEnd_NoControlBreak(_, _)
TextEnd_NoControlBreak(text, i) ==
    IF i > Len(text) THEN i
    ELSE IF IsSeqStart(text, i) THEN i
    ELSE TextEnd_NoControlBreak(text, i + 1)

\* the inner loop of the regular-text branch
RECURSIVE TextEnd(_, _)
TextEnd(text, i) ==
    IF i > Len(text) THEN i
    ELSE IF IsSeqStart(text, i) THEN i
    ELSE IF IsControl(text[i]) THEN i
    ELSE TextEnd(text, i + 1)

\* the scan index after the regular-text branch: the character the text
\* stopped at is skipped when it is a control character
AfterText(text, e) ==
    IF e <= Len(text) /\ IsControl(text[e]) THEN e + 1 ELSE e

\* ScanStep whose incomplete-sequence branch has no `i += 1`
ScanStep_IncompleteStays(text, i) ==
    IF IsSeqStart(text, i)
    THEN LET j == FindCommand(text, i + 2)
         IN  IF j <= Len(text)
             THEN <<IF text[j] = "m"
                    THEN CodesParts(SplitSemi(SubSeq(text, i + 2, j - 1), <<>>))
                    ELSE <<>>,
                    j + 1>>
             ELSE <<<<>>, i>>
    ELSE IF IsControl(text[i])
    THEN <<<<>>, i + 1>>
    ELSE LET e == TextEnd(text, i)
         IN  <<IF i < e THEN <<TextPart(SubSeq(text, i, e - 1))>> ELSE <<>>,
               AfterText(text, e)>>

\* one iteration of the outer loop at index i: <<parts appended, next i>>
ScanStep(text, i) ==
    IF IsSeqStart(text, i)
    THEN LET j == FindCommand(text, i + 2)
         IN  IF j <= Len(text)
             THEN <<IF text[j] = "m"
                    THEN CodesParts(SplitSemi(SubSeq(text, i + 2, j - 1), <<>>))
                    ELSE <<>>,
                    j + 1>>
             ELSE <<<<>>, i + 1>>
    ELSE IF IsControl(text[i])
    THEN <<<<>>, i + 1>>
    ELSE LET e == TextEnd(text, i)
         IN  <<IF i < e THEN <<TextPart(SubSeq(text, i, e - 1))>> ELSE <<>>,
               AfterText(text, e)>>

RECURSIVE Scan(_, _)
Scan(text, i) ==
    IF i > Len(text) THEN <<>>
    ELSE LET st == ScanStep(text, i) IN st[1] \o Scan(text, st[2])

ParseAnsi(text) == Scan(text, 1)

----------------------------------------------------------------------------
(* append_text: the parts applied in order to _current_format / cursor *)

\* ApplyPart whose reset restores the background only
ApplyPart_ResetKeepsFg(st, p) ==
    IF p.k = "fg" THEN [st EXCEPT !.fmt.fg = p.c]
    ELSE IF p.k = "bg" THEN [st EXCEPT !.fmt.bg = p.c]
    ELSE IF p.k = "reset" THEN [st EXCEPT !.fmt.bg = DefaultBg]
    ELSE [st EXCEPT !.runs = Append(@, [s |-> p.s, fg |-> st.fmt.fg, bg |-> st.fmt.bg])]

ApplyPart(st, p) ==
    IF p.k = "fg" THEN [st EXCEPT !.fmt.fg = p.c]
    ELSE IF p.k = "bg" THEN [st EXCEPT !.fmt.bg = p.c]
    ELSE IF p.k = "reset" THEN [st EXCEPT !.fmt = [fg |-> DefaultFg, bg |-> DefaultBg]]
    ELSE [st EXCEPT !.runs = Append(@, [s |-> p.s, fg |-> st.fmt.fg, bg |-> st.fmt.bg])]

RECURSIVE ApplyParts(_, _)
ApplyParts(st, ps) ==
    IF ps = <<>> THEN st ELSE ApplyParts(ApplyPart(st, Head(ps)), Tail(ps))

\* the format and the inserted runs after append_text(text)
AppendText(fmt, rs, text) == ApplyParts([fmt |-> fmt, runs |-> rs], ParseAnsi(text))

\* what TerminalWidget.__init__ sets
InitFormat == [fg |-> DefaultFg, bg |-> DefaultBg]

----------------------------------------------------------------------------
(* SpecTerm: the remote end writes fragments, the receive pump reads what *)
(* has arrived and the GUI thread appends it.                             *)

Fragments ==
    { <<ESC>>, <<"[">>, <<ESC, "[">>,
      <<"3", "1", "m">>, <<"3", "1", "m", "R", "E", "D">>,
      <<ESC, "[", "3", "1", "m">>, <<ESC, "[", "4", "1", "m">>,
      <<ESC, "[", "0", "m">>, <<ESC, "[", "m">>, <<"0", ";">>,
      <<ESC, "[", "9", "9", "9", "m">>, <<ESC, "[", "9", "1", "m">>,
      <<ESC, "[", "2", "J">>,
      <<"a">>, <<BEL>>, <<LF>>, <<C3>>, <<A9>> }

TermInit ==
    /\ inbuf = <<>>
    /\ narrived = 0
    /\ chunks = <<>>
    /\ parts = <<>>
    /\ current_format = InitFormat
    /\ runs = <<>>
    /\ nconnects = 0

\* the remote end writes a fragment to the channel
RemoteWrite(f) ==
    /\ narrived < MaxFrags
    /\ inbuf' = inbuf \o f
    /\ narrived' = narrived + 1
    /\ UNCHANGED <<chunks, parts, current_format, runs, nconnects>>
    /\ UNCHANGED sessvars
    /\ UNCHANGED appvars

\* recv(4096), decode, data_received.emit, _on_ssh_data -> append_text
OnSshData ==
    /\ inbuf # <<>>
    /\ LET text == Decode(inbuf)
           res == AppendText(current_format, runs, text)
       IN  /\ chunks' = Append(chunks, text)
           /\ parts' = ParseAnsi(text)
           /\ current_format' = res.fmt
           /\ runs' = res.runs
    /\ inbuf' = <<>>
    /\ UNCHANGED <<narrived, nconnects>>
    /\ UNCHANGED sessvars
    /\ UNCHANGED appvars

TermNext ==
    \/ \E f \in Fragments : RemoteWrite(f)
    \/ OnSshData

\* the two texts _establish_connection appends: "Connected to ...\n" and
\* "=" * 50 + "\n\n", shortened
ConnectedMessage == <<"C", LF>>
RuleMessage == <<"=", LF, LF>>

\* MainWindow.__init__ and _setup_toolbar / _setup_menus
NoSession == 0
NoClient == 0
Connections == 1..MaxConnects

AppInit ==
    /\ ssh_session = NoSession
    /\ ssh_client = NoClient
    /\ disconnect_enabled = FALSE
    /\ connect_enabled = TRUE
    /\ gui_queue = <<>>
    /\ dialogs = 0
    /\ pump_alive = [c \in Connections |-> FALSE]
    /\ closed_sessions = {}
    /\ closed_clients = {}

\* clear_terminal(): self.clear() empties the document; _current_format is
\* not touched
ClearTerminal == <<>>

\* _establish_connection, lines 161-166, after start_session() of a new
\* SSHSession on a new channel: the terminal is cleared and the two texts
\* are appended; what the old channel had not delivered is not read
EstablishConnection ==
    /\ nconnects < MaxConnects
    /\ dialogs = 0
    /\ nconnects' = nconnects + 1
    /\ ssh_client' = nconnects + 1
    /\ ssh_session' = nconnects + 1
    /\ pump_alive' = [pump_alive EXCEPT ![nconnects + 1] = TRUE]
    /\ disconnect_enabled' = TRUE
    /\ connect_enabled' = FALSE
    /\ UNCHANGED <<gui_queue, dialogs, closed_sessions, closed_clients>>
    /\ LET first == AppendText(current_format, ClearTerminal, ConnectedMessage)
           res == AppendText(first.fmt, first.runs, RuleMessage)
       IN  /\ parts' = ParseAnsi(RuleMessage)
           /\ current_format' = res.fmt
           /\ runs' = res.runs
    /\ chunks' = <<>>
    /\ inbuf' = <<>>
    /\ UNCHANGED narrived
    /\ UNCHANGED sessvars

----------------------------------------------------------------------------
(* SpecApp: the main window, its connections and the signals of their     *)
(* receive threads.  A signal emitted on a receive thread is queued and   *)
(* its slot runs on the GUI thread, from the main event loop or from the  *)
(* event loop of an open message box.                                     *)

\* the texts of _on_session_closed and _disconnect_ssh, shortened
ClosedMessage == <<LF, LF, "S", LF>>
DisconnectRule == <<LF, "=", LF>>
DisconnectedMessage == <<"D", LF, LF>>

\* _disconnect_ssh, run from the terminal state (fmt, rs)
DisconnectSsh(fmt, rs) ==
    /\ closed_sessions' = IF ssh_session # NoSession
                          THEN closed_sessions \cup {ssh_session} ELSE closed_sessions
    /\ ssh_session' = NoSession
    /\ closed_clients' = IF ssh_client # NoClient
                         THEN closed_clients \cup {ssh_client} ELSE closed_clients
    /\ ssh_client' = NoClient
    /\ disconnect_enabled' = FALSE
    /\ connect_enabled' = TRUE
    /\ LET first == AppendText(fmt, rs, DisconnectRule)
           res == AppendText(first.fmt, first.runs, DisconnectedMessage)
       IN  /\ parts' = ParseAnsi(DisconnectedMessage)
           /\ current_format' = res.fmt
           /\ runs' = res.runs
    /\ UNCHANGED <<inbuf, narrived, chunks, nconnects>>

\* the receive thread of session c emits session_closed or error_occurred
\* and ends
SessionEmits(c, kind) ==
    /\ pump_alive[c]
    /\ pump_alive' = [pump_alive EXCEPT ![c] = FALSE]
    /\ gui_queue' = Append(gui_queue, [kind |-> kind, session |-> c])
    /\ UNCHANGED <<ssh_session, ssh_client, disconnect_enabled, connect_enabled,
                   dialogs, closed_sessions, closed_clients>>
    /\ UNCHANGED termvars
    /\ UNCHANGED sessvars

\* the receive thread of a closed session finds _running False and ends
PumpStops(c) ==
    /\ pump_alive[c]
    /\ c \in closed_sessions
    /\ pump_alive' = [pump_alive EXCEPT ![c] = FALSE]
    /\ UNCHANGED <<ssh_session, ssh_client, disconnect_enabled, connect_enabled,
                   gui_queue, dialogs, closed_sessions, closed_clients>>
    /\ UNCHANGED termvars
    /\ UNCHANGED sessvars

\* the GUI thread runs the slot of the first queued signal:
\* _on_session_closed appends its text and calls _disconnect_ssh;
\* _on_ssh_error opens QMessageBox.warning, which returns when the user
\* dismisses it
Deliver ==
    /\ gui_queue # <<>>
    /\ gui_queue' = Tail(gui_queue)
    /\ IF Head(gui_queue).kind = "Closed"
       THEN /\ LET said == AppendText(current_format, runs, ClosedMessage)
               IN  DisconnectSsh(said.fmt, said.runs)
            /\ UNCHANGED dialogs
       ELSE /\ dialogs' = dialogs + 1
            /\ UNCHANGED <<ssh_session, ssh_client, disconnect_enabled,
                           connect_enabled, closed_sessions, closed_clients>>
            /\ UNCHANGED termvars
    /\ UNCHANGED pump_alive
    /\ UNCHANGED sessvars

\* the user dismisses the message box of _on_ssh_error; the slot goes on
\* with _disconnect_ssh
DismissDialog ==
    /\ dialogs > 0
    /\ dialogs' = dialogs - 1
    /\ DisconnectSsh(current_format, runs)
    /\ UNCHANGED <<gui_queue, pump_alive>>
    /\ UNCHANGED sessvars

\* the user triggers Disconnect
DisconnectClicked ==
    /\ disconnect_enabled
    /\ dialogs = 0
    /\ DisconnectSsh(current_format, runs)
    /\ UNCHANGED <<gui_queue, dialogs, pump_alive>>
    /\ UNCHANGED sessvars

AppNext ==
    \/ EstablishConnection
    \/ \E c \in Connections : \E kind \in {"Closed", "Error"} : SessionEmits(c, kind)
    \/ \E c \in Connections : PumpStops(c)
    \/ Deliver
    \/ DismissDialog
    \/ DisconnectClicked

\* output arrives on the channel of a connection
ConnNext ==
    \/ nconnects >= 1 /\ TermNext
    \/ EstablishConnection

----------------------------------------------------------------------------
(* SSHSession.  One object; every successful start_session() obtains a    *)
(* new channel and starts a new pair of pump threads, numbered like the   *)
(* channel (by the number of the call).  A pump reads self._running and self.channel of the object   *)
(* each time its code does, so a pump of an earlier start that is still  *)
(* alive works on the current channel.                                    *)

NoChannel == 0
NoThread == 0
\* the None that close() puts on the queue
Sentinel == 0

Pumps == 1..MaxStarts
ExitCodes == {0, 1}

\* a signal: data_received ("Data"), session_closed ("Closed") or
\* error_occurred ("Error"), with the thread that emitted it
Event(kind, thread, val) == [kind |-> kind, by |-> thread, val |-> val]
CallerThread == <<"caller", 0>>
RecvThread(g) == <<"receive", g>>
SendThread(g) == <<"send", g>>

\* self._send_thread and self._send_thread.is_alive()
SendAlive(g) == g # NoThread /\ spc[g] \notin {"none", "done"}

\* SSHSession.__init__
\* a call of the caller's thread: the method, and whether it did its work
\* ("ok"), returned without doing anything ("noop"), caught and logged an
\* exception ("caught") or raised to the caller ("raised")
Call(op, result) == [op |-> op, result |-> result]
NoCall == Call("none", "none")

SessInit ==
    /\ running = FALSE
    /\ channel = NoChannel
    /\ receive_thread = NoThread
    /\ send_thread = NoThread
    /\ send_queue = <<>>
    /\ rpc = [g \in Pumps |-> "none"]
    /\ rexit = [g \in Pumps |-> "none"]
    /\ spc = [g \in Pumps |-> "none"]
    /\ sdata = [g \in Pumps |-> Sentinel]
    /\ sexit = [g \in Pumps |-> "none"]
    /\ cpc = "idle"
    /\ avail = 0
    /\ nproduced = 0
    /\ exit_ready = FALSE
    /\ exit_code = 0
    /\ chan_closes = 0
    /\ events = <<>>
    /\ written = <<>>
    /\ nreads = 0
    /\ nsent = 0
    /\ nstarts = 0
    /\ ncloses = 0
    /\ nfaults = 0
    /\ close_returned = FALSE
    /\ call = NoCall

pumpvars == <<rpc, rexit, spc, sdata, sexit>>
envvars == <<avail, nproduced, exit_ready, exit_code>>
countvars == <<nreads, nsent, nstarts, ncloses>>

\* the caller's thread makes one more call
CallsLeft == nstarts + nsent + ncloses < MaxCalls

\* a channel operation raises
Raises ==
    /\ nfaults < MaxFaults
    /\ nfaults' = nfaults + 1

---------------------------------------------------------------------------
(* The caller's thread *)

\* start_session() on a running session: the warning and the return
StartSessionRunning ==
    /\ cpc = "idle"
    /\ running
    /\ call' = Call("start_session", "noop")
    /\ UNCHANGED sessstate
    /\ UNCHANGED termvars
    /\ UNCHANGED appvars

\* StartSession without the `if self._running: return` guard of lines 46-48
StartSession_NoGuard ==
    /\ cpc = "idle"
    /\ nstarts < MaxStarts
    /\ CallsLeft
    /\ LET g == nstarts + 1
       IN  /\ channel' = g
           /\ running' = TRUE
           /\ receive_thread' = g
           /\ send_thread' = g
           /\ rpc' = [rpc EXCEPT ![g] = "loop"]
           /\ spc' = [spc EXCEPT ![g] = "loop"]
           /\ nstarts' = g
    /\ avail' = 0
    /\ nproduced' = 0
    /\ exit_ready' = FALSE
    /\ chan_closes' = 0
    /\ close_returned' = FALSE
    /\ UNCHANGED <<send_queue, rexit, sdata, sexit, cpc, exit_code, events, written,
                   nreads, nsent, ncloses>>
    /\ UNCHANGED nfaults
    /\ call' = Call("start_session", "ok")
    /\ UNCHANGED termvars
    /\ UNCHANGED appvars

\* start_session(): invoke_shell() returns a channel
StartSession ==
    /\ cpc = "idle"
    /\ ~running
    /\ nstarts < MaxStarts
    /\ CallsLeft
    /\ LET g == nstarts + 1
       IN  /\ channel' = g
           /\ running' = TRUE
           /\ receive_thread' = g
           /\ send_thread' = g
           /\ rpc' = [rpc EXCEPT ![g] = "loop"]
           /\ spc' = [spc EXCEPT ![g] = "loop"]
           /\ nstarts' = g
    /\ avail' = 0
    /\ nproduced' = 0
    /\ exit_ready' = FALSE
    /\ chan_closes' = 0
    /\ close_returned' = FALSE
    /\ UNCHANGED <<send_queue, rexit, sdata, sexit, cpc, exit_code, events, written,
                   nreads, nsent, ncloses>>
    /\ UNCHANGED nfaults
    /\ call' = Call("start_session", "ok")
    /\ UNCHANGED termvars
    /\ UNCHANGED appvars

\* StartSessionFails with `self._running = True` set before invoke_shell()
StartSessionFails_RunningSetFirst ==
    /\ cpc = "idle"
    /\ ~running
    /\ nstarts < MaxStarts
    /\ CallsLeft
    /\ nstarts' = nstarts + 1
    /\ Raises
    /\ running' = TRUE
    /\ events' = Append(events, Event("Error", CallerThread, 0))
    /\ close_returned' = FALSE
    /\ UNCHANGED <<channel, receive_thread, send_thread, send_queue, cpc,
                   chan_closes, written, nreads, nsent, ncloses>>
    /\ UNCHANGED <<pumpvars, envvars>>
    /\ call' = Call("start_session", "raised")
    /\ UNCHANGED termvars
    /\ UNCHANGED appvars

\* start_session(): invoke_shell() raises; the error is emitted and re-raised
StartSessionFails ==
    /\ cpc = "idle"
    /\ ~running
    /\ nstarts < MaxStarts
    /\ CallsLeft
    /\ nstarts' = nstarts + 1
    /\ Raises
    /\ events' = Append(events, Event("Error", CallerThread, 0))
    /\ close_returned' = FALSE
    /\ UNCHANGED <<running, channel, receive_thread, send_thread, send_queue, cpc,
                   chan_closes, written, nreads, nsent, ncloses>>
    /\ UNCHANGED <<pumpvars, envvars>>
    /\ call' = Call("start_session", "raised")
    /\ UNCHANGED termvars
    /\ UNCHANGED appvars

\* send_data(data): the buffers are numbered in the order they are accepted
SendData ==
    /\ cpc = "idle"
    /\ running /\ channel # NoChannel
    /\ nsent < MaxSend
    /\ CallsLeft
    /\ send_queue' = Append(send_queue, nsent + 1)
    /\ nsent' = nsent + 1
    /\ UNCHANGED <<running, channel, receive_thread, send_thread, cpc, chan_closes,
                   events, written, nreads, nstarts, ncloses, close_returned>>
    /\ UNCHANGED <<pumpvars, envvars>>
    /\ UNCHANGED nfaults
    /\ call' = Call("send_data", "ok")
    /\ UNCHANGED termvars
    /\ UNCHANGED appvars

\* send_data(data) when the session is not running
SendDataNotRunning ==
    /\ cpc = "idle"
    /\ ~(running /\ channel # NoChannel)
    /\ call' = Call("send_data", "noop")
    /\ UNCHANGED sessstate
    /\ UNCHANGED termvars
    /\ UNCHANGED appvars

\* ResizeTerminal without the two try/except blocks around resize_pty
ResizeTerminal_Propagates ==
    /\ cpc = "idle"
    /\ IF channel # NoChannel /\ running
       THEN \/ /\ call' = Call("resize_terminal", "ok")
               /\ UNCHANGED nfaults
            \/ /\ Raises
               /\ call' = Call("resize_terminal", "raised")
       ELSE /\ call' = Call("resize_terminal", "noop")
            /\ UNCHANGED nfaults
    /\ UNCHANGED <<running, channel, receive_thread, send_thread, send_queue, cpc,
                   chan_closes, events, written, close_returned>>
    /\ UNCHANGED <<pumpvars, envvars, countvars>>
    /\ UNCHANGED termvars
    /\ UNCHANGED appvars

\* resize_terminal(width, height): SSHClient.resize_terminal calls
\* channel.resize_pty and logs what it raises; nothing is done without a
\* channel or when the session is not running
ResizeTerminal ==
    /\ cpc = "idle"
    /\ IF channel # NoChannel /\ running
       THEN \/ /\ call' = Call("resize_terminal", "ok")
               /\ UNCHANGED nfaults
            \/ /\ Raises
               /\ call' = Call("resize_terminal", "caught")
       ELSE /\ call' = Call("resize_terminal", "noop")
            /\ UNCHANGED nfaults
    /\ UNCHANGED <<running, channel, receive_thread, send_thread, send_queue, cpc,
                   chan_closes, events, written, close_returned>>
    /\ UNCHANGED <<pumpvars, envvars, countvars>>
    /\ UNCHANGED termvars
    /\ UNCHANGED appvars

\* close(), line 153: self._running = False
CloseBegin ==
    /\ cpc = "idle"
    /\ ncloses < MaxCloses
    /\ CallsLeft
    /\ running' = FALSE
    /\ ncloses' = ncloses + 1
    /\ cpc' = "join_receive"
    /\ UNCHANGED <<channel, receive_thread, send_thread, send_queue, chan_closes,
                   events, written, nreads, nsent, nstarts, close_returned>>
    /\ UNCHANGED <<pumpvars, envvars>>
    /\ UNCHANGED nfaults
    /\ call' = Call("close", "ok")
    /\ UNCHANGED termvars
    /\ UNCHANGED appvars

\* ChannelClose without the try/except of lines 166-169
ChannelClose_Propagates ==
    /\ IF channel # NoChannel
       THEN /\ chan_closes' = chan_closes + 1
            /\ \/ UNCHANGED <<nfaults, call>>
               \/ /\ Raises
                  /\ call' = Call("close", "raised")
       ELSE UNCHANGED <<chan_closes, nfaults, call>>
    /\ cpc' = "idle"
    /\ close_returned' = TRUE

\* close(), lines 165-171: channel.close() when there is a channel (an
\* exception it raises is logged), then close() returns
ChannelClose ==
    /\ IF channel # NoChannel
       THEN /\ chan_closes' = chan_closes + 1
            /\ \/ UNCHANGED <<nfaults, call>>
               \/ /\ Raises
                  /\ call' = Call("close", "caught")
       ELSE UNCHANGED <<chan_closes, nfaults, call>>
    /\ cpc' = "idle"
    /\ close_returned' = TRUE

\* close(), lines 156-162: join(timeout=1.0) on the receive thread returns,
\* because the thread has ended or because the timeout has passed; then the
\* sentinel is put when the send thread is alive, and that thread is joined
CloseJoinReceive ==
    /\ cpc = "join_receive"
    /\ IF SendAlive(send_thread)
       THEN /\ send_queue' = Append(send_queue, Sentinel)
            /\ cpc' = "join_send"
            /\ UNCHANGED <<chan_closes, close_returned, nfaults, call>>
       ELSE /\ send_queue' = send_queue
            /\ ChannelClose
    /\ UNCHANGED <<running, channel, receive_thread, send_thread, events, written>>
    /\ UNCHANGED <<pumpvars, envvars, countvars>>
    /\ UNCHANGED termvars
    /\ UNCHANGED appvars

\* close(), line 162: join(timeout=1.0) on the send thread returns, in either
\* way; then the channel is closed
CloseJoinSend ==
    /\ cpc = "join_send"
    /\ ChannelClose
    /\ UNCHANGED <<running, channel, receive_thread, send_thread, send_queue,
                   events, written>>
    /\ UNCHANGED <<pumpvars, envvars, countvars>>
    /\ UNCHANGED termvars
    /\ UNCHANGED appvars

---------------------------------------------------------------------------
(* _receive_loop, run by receive pump g *)

\* the outer `except Exception`: error_occurred.emit, then the finally clause
RecvRaise(g) ==
    /\ Raises
    /\ events' = Append(events, Event("Error", RecvThread(g), 0))
    /\ rpc' = [rpc EXCEPT ![g] = "finally"]
    /\ rexit' = [rexit EXCEPT ![g] = "error"]

\* line 94: while self._running and self.channel
RecvLoopCheck(g) ==
    /\ rpc[g] = "loop"
    /\ IF running /\ channel # NoChannel
       THEN /\ rpc' = [rpc EXCEPT ![g] = "recv_ready"]
            /\ rexit' = rexit
       ELSE /\ rpc' = [rpc EXCEPT ![g] = "finally"]
            /\ rexit' = [rexit EXCEPT ![g] = "stopped"]
    /\ UNCHANGED <<running, channel, receive_thread, send_thread, send_queue, spc,
                   sdata, sexit, cpc, chan_closes, events, written, close_returned>>
    /\ UNCHANGED <<envvars, countvars>>
    /\ UNCHANGED nfaults
    /\ UNCHANGED call
    /\ UNCHANGED termvars
    /\ UNCHANGED appvars

\* line 95: self.channel.recv_ready() returns, or raises
RecvReady(g) ==
    /\ rpc[g] = "recv_ready"
    /\ \/ /\ rpc' = [rpc EXCEPT ![g] = IF avail > 0 THEN "recv" ELSE "exit_check"]
          /\ UNCHANGED <<rexit, events, nfaults>>
       \/ RecvRaise(g)
    /\ UNCHANGED <<running, channel, receive_thread, send_thread, send_queue, spc,
                   sdata, sexit, cpc, chan_closes, written, close_returned>>
    /\ UNCHANGED <<envvars, countvars>>
    /\ UNCHANGED call
    /\ UNCHANGED termvars
    /\ UNCHANGED appvars

\* RecvData without the `if data:` test of line 98
RecvData_EmitsEmptyRead(g) ==
    /\ rpc[g] = "recv"
    /\ \/ /\ avail > 0
          /\ events' = Append(events, Event("Data", RecvThread(g), nproduced - avail + 1))
          /\ avail' = avail - 1
          /\ nreads' = nreads + 1
          /\ rpc' = [rpc EXCEPT ![g] = "exit_check"]
          /\ UNCHANGED <<rexit, nfaults>>
       \/ /\ avail = 0
          /\ exit_ready
          /\ events' = Append(events, Event("Data", RecvThread(g), 0))
          /\ rpc' = [rpc EXCEPT ![g] = "exit_check"]
          /\ UNCHANGED <<rexit, avail, nreads, nfaults>>
       \/ /\ avail = 0
          /\ ~exit_ready
          /\ rpc' = [rpc EXCEPT ![g] = "finally"]
          /\ rexit' = [rexit EXCEPT ![g] = "recv_error"]
          /\ UNCHANGED <<events, avail, nreads, nfaults>>
       \/ /\ Raises
          /\ rpc' = [rpc EXCEPT ![g] = "finally"]
          /\ rexit' = [rexit EXCEPT ![g] = "recv_error"]
          /\ UNCHANGED <<events, avail, nreads>>
    /\ UNCHANGED <<running, channel, receive_thread, send_thread, send_queue, spc,
                   sdata, sexit, cpc, chan_closes, written, close_returned>>
    /\ UNCHANGED <<nproduced, exit_ready, exit_code, nsent, nstarts, ncloses>>
    /\ UNCHANGED call
    /\ UNCHANGED termvars
    /\ UNCHANGED appvars

\* lines 96-104: recv(4096); a non-empty read is decoded and emitted, an empty
\* one (end of file) is not; an exception is logged and leaves the loop, and
\* so is the socket.timeout of a read that finds nothing (settimeout(0.1),
\* line 53) because another thread has read it or the channel is a new one
RecvData(g) ==
    /\ rpc[g] = "recv"
    /\ \/ /\ avail > 0
          /\ events' = Append(events, Event("Data", RecvThread(g), nproduced - avail + 1))
          /\ avail' = avail - 1
          /\ nreads' = nreads + 1
          /\ rpc' = [rpc EXCEPT ![g] = "exit_check"]
          /\ UNCHANGED <<rexit, nfaults>>
       \/ /\ avail = 0
          /\ exit_ready
          /\ rpc' = [rpc EXCEPT ![g] = "exit_check"]
          /\ UNCHANGED <<rexit, events, avail, nreads, nfaults>>
       \/ /\ avail = 0
          /\ ~exit_ready
          /\ rpc' = [rpc EXCEPT ![g] = "finally"]
          /\ rexit' = [rexit EXCEPT ![g] = "recv_error"]
          /\ UNCHANGED <<events, avail, nreads, nfaults>>
       \/ /\ Raises
          /\ rpc' = [rpc EXCEPT ![g] = "finally"]
          /\ rexit' = [rexit EXCEPT ![g] = "recv_error"]
          /\ UNCHANGED <<events, avail, nreads>>
    /\ UNCHANGED <<running, channel, receive_thread, send_thread, send_queue, spc,
                   sdata, sexit, cpc, chan_closes, written, close_returned>>
    /\ UNCHANGED <<nproduced, exit_ready, exit_code, nsent, nstarts, ncloses>>
    /\ UNCHANGED call
    /\ UNCHANGED termvars
    /\ UNCHANGED appvars

\* lines 107-111: exit_status_ready(); when ready recv_exit_status() and
\* session_closed.emit(exit_code), break
RecvExitCheck(g) ==
    /\ rpc[g] = "exit_check"
    /\ \/ /\ exit_ready
          /\ events' = Append(events, Event("Closed", RecvThread(g), exit_code))
          /\ rpc' = [rpc EXCEPT ![g] = "finally"]
          /\ rexit' = [rexit EXCEPT ![g] = "closed"]
          /\ UNCHANGED nfaults
       \/ /\ ~exit_ready
          /\ rpc' = [rpc EXCEPT ![g] = "loop"]
          /\ UNCHANGED <<rexit, events, nfaults>>
       \/ RecvRaise(g)
    /\ UNCHANGED <<running, channel, receive_thread, send_thread, send_queue, spc,
                   sdata, sexit, cpc, chan_closes, written, close_returned>>
    /\ UNCHANGED <<envvars, countvars>>
    /\ UNCHANGED call
    /\ UNCHANGED termvars
    /\ UNCHANGED appvars

\* lines 116-117: finally: self._running = False
RecvFinally(g) ==
    /\ rpc[g] = "finally"
    /\ running' = FALSE
    /\ rpc' = [rpc EXCEPT ![g] = "done"]
    /\ UNCHANGED <<channel, receive_thread, send_thread, send_queue, rexit, spc,
                   sdata, sexit, cpc, chan_closes, events, written, close_returned>>
    /\ UNCHANGED <<envvars, countvars>>
    /\ UNCHANGED nfaults
    /\ UNCHANGED call
    /\ UNCHANGED termvars
    /\ UNCHANGED appvars

---------------------------------------------------------------------------
(* _send_loop, run by send pump g.  The outer `except Exception` (lines    *)
(* 133-135, the only error_occurred.emit of the loop) encloses nothing    *)
(* that raises past the inner handlers, so no step of the pump emits.      *)

\* line 122: while self._running and self.channel
SendLoopCheck(g) ==
    /\ spc[g] \in {"loop", "after_none"}
    /\ IF running /\ channel # NoChannel
       THEN /\ spc' = [spc EXCEPT ![g] = "get"]
            /\ sexit' = sexit
       ELSE /\ spc' = [spc EXCEPT ![g] = "done"]
            /\ sexit' = [sexit EXCEPT ![g] = "stopped"]
    /\ UNCHANGED <<running, channel, receive_thread, send_thread, send_queue, rpc,
                   rexit, sdata, cpc, chan_closes, events, written, close_returned>>
    /\ UNCHANGED <<envvars, countvars>>
    /\ UNCHANGED nfaults
    /\ UNCHANGED call
    /\ UNCHANGED termvars
    /\ UNCHANGED appvars

\* lines 125-126, 128-129: get(timeout=0.1) returns the head of the queue, or
\* raises queue.Empty; `if data and self.channel` lets a buffer through, and
\* after the None of close() the thread is back at the loop test ("after_none")
SendGet(g) ==
    /\ spc[g] = "get"
    /\ IF send_queue # <<>>
       THEN /\ send_queue' = Tail(send_queue)
            /\ IF Head(send_queue) # Sentinel /\ channel # NoChannel
               THEN /\ spc' = [spc EXCEPT ![g] = "send"]
                    /\ sdata' = [sdata EXCEPT ![g] = Head(send_queue)]
               ELSE /\ spc' = [spc EXCEPT ![g] =
                                IF Head(send_queue) = Sentinel THEN "after_none" ELSE "loop"]
                    /\ sdata' = sdata
       ELSE /\ spc' = [spc EXCEPT ![g] = "loop"]
            /\ UNCHANGED <<send_queue, sdata>>
    /\ UNCHANGED <<running, channel, receive_thread, send_thread, rpc, rexit, sexit,
                   cpc, chan_closes, events, written, close_returned>>
    /\ UNCHANGED <<envvars, countvars>>
    /\ UNCHANGED nfaults
    /\ UNCHANGED call
    /\ UNCHANGED termvars
    /\ UNCHANGED appvars

\* the channel took the buffer
ChannelSend(g) ==
    /\ written' = Append(written, sdata[g])
    /\ spc' = [spc EXCEPT ![g] = "loop"]
    /\ sexit' = sexit
    /\ nfaults' = nfaults

\* lines 130-132: `except Exception`: the warning, then break
SendFailed(g) ==
    /\ Raises
    /\ written' = written
    /\ spc' = [spc EXCEPT ![g] = "done"]
    /\ sexit' = [sexit EXCEPT ![g] = "send_error"]

\* line 127: self.channel.send(data) returns, or raises
SendWrite(g) ==
    /\ spc[g] = "send"
    /\ \/ ChannelSend(g)
       \/ SendFailed(g)
    /\ sdata' = [sdata EXCEPT ![g] = Sentinel]
    /\ UNCHANGED <<running, channel, receive_thread, send_thread, send_queue, rpc,
                   rexit, cpc, chan_closes, events, close_returned>>
    /\ UNCHANGED <<envvars, countvars>>
    /\ UNCHANGED call
    /\ UNCHANGED termvars
    /\ UNCHANGED appvars

---------------------------------------------------------------------------
(* The remote end of the current channel *)

\* the remote shell produces output
RemoteOutput ==
    /\ channel # NoChannel
    /\ ~exit_ready
    /\ nproduced < MaxRecv
    /\ avail' = avail + 1
    /\ nproduced' = nproduced + 1
    /\ UNCHANGED <<running, channel, receive_thread, send_thread, send_queue, cpc,
                   exit_ready, exit_code, chan_closes, events, written, close_returned>>
    /\ UNCHANGED <<pumpvars, countvars>>
    /\ UNCHANGED nfaults
    /\ UNCHANGED call
    /\ UNCHANGED termvars
    /\ UNCHANGED appvars

\* the remote shell exits with code n
RemoteExit(n) ==
    /\ channel # NoChannel
    /\ ~exit_ready
    /\ exit_ready' = TRUE
    /\ exit_code' = n
    /\ UNCHANGED <<running, channel, receive_thread, send_thread, send_queue, cpc,
                   avail, nproduced, chan_closes, events, written, close_returned>>
    /\ UNCHANGED <<pumpvars, countvars>>
    /\ UNCHANGED nfaults
    /\ UNCHANGED call
    /\ UNCHANGED termvars
    /\ UNCHANGED appvars

Next ==
    \/ StartSessionRunning
    \/ StartSession
    \/ StartSessionFails
    \/ SendData
    \/ SendDataNotRunning
    \/ ResizeTerminal
    \/ CloseBegin
    \/ CloseJoinReceive
    \/ CloseJoinSend
    \/ \E g \in Pumps : RecvLoopCheck(g)
    \/ \E g \in Pumps : RecvReady(g)
    \/ \E g \in Pumps : RecvData(g)
    \/ \E g \in Pumps : RecvExitCheck(g)
    \/ \E g \in Pumps : RecvFinally(g)
    \/ \E g \in Pumps : SendLoopCheck(g)
    \/ \E g \in Pumps : SendGet(g)
    \/ \E g \in Pumps : SendWrite(g)
    \/ RemoteOutput
    \/ \E n \in ExitCodes : RemoteExit(n)
----------------------------------------------------------------------------
\* the steps of the two threads of start call g
RecvStep(g) ==
    \/ RecvLoopCheck(g)
    \/ RecvReady(g)
    \/ RecvData(g)
    \/ RecvExitCheck(g)
    \/ RecvFinally(g)

SendStep(g) ==
    \/ SendLoopCheck(g)
    \/ SendGet(g)
    \/ SendWrite(g)

\* a thread that can take a step takes one: the polls and the reads time out
\* after 0.1 s, queue.get after 0.1 s, and the joins of close() after 1 s
Fairness ==
    /\ \A g \in Pumps : WF_vars(RecvStep(g)) /\ WF_vars(SendStep(g))
    /\ WF_vars(CloseJoinReceive)
    /\ WF_vars(CloseJoinSend)

Init == TermInit /\ SessInit /\ AppInit

SpecTerm == Init /\ [][TermNext]_vars

SpecConn == Init /\ [][ConnNext]_vars

SpecApp == Init /\ [][AppNext]_vars

Spec == Init /\ [][Next]_vars

SpecFair == Spec /\ Fairness

----------------------------------------------------------------------------
(* Helpers of the terminal claims *)

RECURSIVE Concat(_)
Concat(ss) == IF ss = <<>> THEN <<>> ELSE Head(ss) \o Concat(Tail(ss))

\* the rendered document: one cell <<character, fg, bg>> per inserted character
RECURSIVE Cells(_)
Cells(rs) ==
    IF rs = <<>> THEN <<>>
    ELSE [n \in 1..Len(Head(rs).s) |-> <<Head(rs).s[n], Head(rs).fg, Head(rs).bg>>]
         \o Cells(Tail(rs))

\* the widget after one append_text call on the whole text, from a new widget
OneShot(text) == AppendText(InitFormat, <<>>, text)

\* text[k..] is ESC '[' with no command character up to the end of the text,
\* and no such fragment starts earlier
OpenFragmentAt(text, k) ==
    /\ IsSeqStart(text, k)
    /\ FindCommand(text, k + 2) > Len(text)
    /\ \A h \in 1..(k - 1) : ~(IsSeqStart(text, h) /\ FindCommand(text, h + 2) > Len(text))

LastChunk == chunks[Len(chunks)]

\* C1: feeding the chunks one after another renders the same characters with
\* the same attributes, and leaves the same current attributes, as feeding
\* their concatenation in one append_text call.
C1_ChunkTransparency ==
    /\ Cells(runs) = Cells(OneShot(Concat(chunks)).runs)
    /\ current_format = OneShot(Concat(chunks)).fmt

\* C2: a chunk that ends inside ESC '[' ... (no command character yet) emits
\* nothing for that fragment, and the chunks ESC[ and 31mRED give exactly one
\* run RED in foreground red.
C2_SplitSequenceDeferred ==
    /\ chunks # <<>> =>
         \A k \in 1..Len(LastChunk) :
            OpenFragmentAt(LastChunk, k) => parts = ParseAnsi(SubSeq(LastChunk, 1, k - 1))
    /\ chunks = << <<ESC, "[">>, <<"3", "1", "m", "R", "E", "D">> >> =>
         runs = << [s |-> <<"R", "E", "D">>, fg |-> Red, bg |-> DefaultBg] >>

\* C10: a chunk that starts with ESC[4dm, d in 0..7, yields first a
\* SetBackground directive with the color of foreground code 3d.
C10_BackgroundDirective ==
    (/\ chunks # <<>>
     /\ Len(LastChunk) >= 5
     /\ SubSeq(LastChunk, 1, 3) = <<ESC, "[", "4">>
     /\ LastChunk[4] \in {"0", "1", "2", "3", "4", "5", "6", "7"}
     /\ LastChunk[5] = "m")
    => /\ parts # <<>>
       /\ parts[1] = BgPart(ANSI_COLORS[<<"3", LastChunk[4]>>])

----------------------------------------------------------------------------
(* Helpers of the session claims *)

\* the events of a kind that a thread emitted
EventsOf(kinds, thread) ==
    {i \in DOMAIN events : events[i].kind \in kinds /\ events[i].by = thread}

\* pump pair g has stopped
PumpsStopped(g) == rpc[g] = "done" /\ spc[g] = "done"

\* the session of pump pair g ended by a remote exit, a read failure or a
\* write failure
EndedByChannel(g) ==
    \/ rexit[g] \in {"closed", "recv_error", "error"}
    \/ sexit[g] = "send_error"

\* C3: the channel receives the accepted buffers in the order send_data()
\* accepted them (the buffers are numbered in that order).
C3_FifoSendOrder ==
    \A i, j \in DOMAIN written : i < j => written[i] < written[j]

\* C4: once close() has returned, no event is emitted any more (until the
\* session is started again).
C4_NoEventAfterClose ==
    [][(close_returned /\ close_returned') => events' = events]_vars

\* C5: a close() call after the first (the first has returned and the session
\* was not started since) is a no-op: its steps close no channel, enqueue
\* nothing, emit nothing and leave the session state as it is.
C5_SecondCloseNoOp ==
    [][(close_returned /\ cpc' # cpc)
          => UNCHANGED <<running, channel, send_queue, chan_closes, events, written>>]_vars

\* the receive pump of the current channel has emitted session_closed
ClosedEmitted == EventsOf({"Closed"}, RecvThread(channel)) # {}

\* C6: the session emits at most one Closed, carrying the channel's exit code,
\* and once it is emitted no more buffer is written to and no more data is read
\* from the channel.
C6_ExitCodePropagation ==
    /\ [](\A g \in Pumps :
            /\ Cardinality(EventsOf({"Closed"}, RecvThread(g))) <= 1
            /\ \A i \in EventsOf({"Closed"}, RecvThread(g)) :
                  channel = g => events[i].val = exit_code)
    /\ [][(ClosedEmitted /\ channel' = channel)
             => (written' = written /\ nreads' = nreads)]_vars

\* C7: when both pumps of a session that ended by a remote exit, a read failure
\* or a write failure have stopped, exactly one Error or Closed was emitted for it.
C7_ExactlyOneTerminalEvent ==
    \A g \in Pumps :
        (PumpsStopped(g) /\ EndedByChannel(g))
        => Cardinality(EventsOf({"Error", "Closed"}, RecvThread(g))
                       \cup EventsOf({"Error", "Closed"}, SendThread(g))) = 1

\* C8: after a write failure the send pump has emitted Error and stopped, and
\* the session is not running.
C8_WriteFailureIsTerminal ==
    \A g \in Pumps :
        sexit[g] = "send_error"
        => /\ spc[g] = "done"
           /\ EventsOf({"Error"}, SendThread(g)) # {}
           /\ channel = g => ~running

\* C9: after a failure of a channel read operation the receive pump has
\* emitted Error when it has stopped, and the session is not running.
C9_ReadFailureIsTerminal ==
    \A g \in Pumps :
        (rpc[g] = "done" /\ rexit[g] \in {"recv_error", "error"})
        => /\ EventsOf({"Error"}, RecvThread(g)) # {}
           /\ channel = g => ~running

----------------------------------------------------------------------------
(* Claims C11..C14 about the terminal, under SpecTerm *)

\* the 16 foreground codes: 30-37 and 90-97
ForegroundCodes == {<<a, b>> : a \in {"3", "9"}, b \in {"0", "1", "2", "3", "4", "5", "6", "7"}}

\* the chunk is ESC [ code m followed by anything
StartsWithSgr(text, code) ==
    /\ Len(text) >= Len(code) + 3
    /\ SubSeq(text, 1, Len(code) + 3) = <<ESC, "[">> \o code \o <<"m">>

AfterSgr(text, code) == SubSeq(text, Len(code) + 4, Len(text))

\* the text is nonempty and has printable characters only
IsPlain(text) ==
    /\ text # <<>>
    /\ \A k \in 1..Len(text) : ~IsControl(text[k])

RECURSIVE DropBel(_)
DropBel(text) ==
    IF text = <<>> THEN <<>>
    ELSE IF Head(text) = BEL THEN DropBel(Tail(text))
    ELSE <<Head(text)>> \o DropBel(Tail(text))

\* C12: a chunk of printable characters with control bytes BEL inside it
\* yields a single text part, the characters without the control bytes.
C12_ControlByteCoalesces ==
    (/\ chunks # <<>>
     /\ \A k \in 1..Len(LastChunk) : LastChunk[k] # ESC
     /\ DropBel(LastChunk) # <<>>)
        => parts = <<TextPart(DropBel(LastChunk))>>

\* C13: a chunk that is ESC[999m followed by plain text yields that text as
\* one run with the format in effect before the chunk, yields no formatting
\* part and leaves the format as it was.
C13_UnknownCodeIgnored ==
    [][(/\ chunks' # chunks
        /\ StartsWithSgr(chunks'[Len(chunks')], <<"9", "9", "9">>)
        /\ IsPlain(AfterSgr(chunks'[Len(chunks')], <<"9", "9", "9">>)))
       => LET text == AfterSgr(chunks'[Len(chunks')], <<"9", "9", "9">>)
          IN  /\ parts' = <<TextPart(text)>>
              /\ current_format' = current_format
              /\ runs' = Append(runs, [s |-> text, fg |-> current_format.fg,
                                        bg |-> current_format.bg])]_vars

\* red was in effect, then ESC[999m and a text arrived in one chunk, and the
\* text was inserted in red
C13_Witness ==
    /\ Len(chunks) >= 2
    /\ chunks[Len(chunks) - 1] = <<ESC, "[", "3", "1", "m">>
    /\ LastChunk = <<ESC, "[", "9", "9", "9", "m", "a">>
    /\ parts = <<TextPart(<<"a">>)>>
    /\ runs # <<>>
    /\ runs[Len(runs)] = [s |-> <<"a">>, fg |-> <<205, 0, 0>>, bg |-> <<0, 0, 0>>]

\* the two reset sequences
ResetSequences == {<<ESC, "[", "0", "m">>, <<ESC, "[", "m">>}

\* C14: after a chunk that is ESC[0m or ESC[m the format is the default one,
\* light grey (229,229,229) on black (0,0,0), whatever it was before; so a
\* second reset finds the default format and leaves it.
C14_ResetIdempotence ==
    (chunks # <<>> /\ LastChunk \in ResetSequences)
        => current_format = [fg |-> <<229, 229, 229>>, bg |-> <<0, 0, 0>>]

\* red was set by one chunk and the next chunk, ESC[m, restored the default
C14_Witness ==
    /\ Len(chunks) >= 2
    /\ chunks[Len(chunks) - 1] = <<ESC, "[", "3", "1", "m">>
    /\ LastChunk = <<ESC, "[", "m">>
    /\ parts = <<ResetPart>>
    /\ current_format = [fg |-> <<229, 229, 229>>, bg |-> <<0, 0, 0>>]

----------------------------------------------------------------------------
(* Claims C15..C19 about the session, under Spec *)

\* the session is not running in the sense of the interface: it was never
\* started, or close() has returned, or the receive pump of its channel has
\* ended (remote exit, read failure), or the send pump failed in a write
SessionEnded ==
    \/ channel = NoChannel
    \/ close_returned
    \/ channel # NoChannel /\ rpc[channel] = "done"
    \/ channel # NoChannel /\ sexit[channel] = "send_error"

\* the buffers on the queue (the sentinel of close() is not one)
BuffersIn(q) == {q[k] : k \in 1..Len(q)} \ {Sentinel}

\* C15: while the session is not running (never started, closed, ended by a
\* remote exit or by an I/O failure) no call puts a buffer on the queue: a
\* send_data() call made then accepts nothing.
C15_SendWhenNotRunning ==
    [][SessionEnded => (nsent' = nsent /\ BuffersIn(send_queue') \subseteq BuffersIn(send_queue))]_vars

\* a start_session() call in which invoke_shell() raised
StartRaisedStep == nstarts' = nstarts + 1 /\ nfaults' = nfaults + 1

\* C16: when the shell cannot be obtained, start_session() raises to the
\* caller, the session stays not running, no pump is launched and the
\* session holds no new channel or thread.
C16_StartFailure ==
    [][StartRaisedStep
       => /\ call' = Call("start_session", "raised")
          /\ ~running'
          /\ UNCHANGED <<pumpvars, channel, receive_thread, send_thread, send_queue>>]_vars

\* the first start_session() raised: not running, no pump, the error emitted
C16_Witness ==
    /\ call = Call("start_session", "raised")
    /\ nstarts = 1
    /\ ~running
    /\ channel = NoChannel
    /\ \A g \in Pumps : rpc[g] = "none" /\ spc[g] = "none"

\* a start_session() call: it is the call recorded last and either the record
\* or the count of effective starts changed
StartCallStep == call'.op = "start_session" /\ (call' # call \/ nstarts' # nstarts)

\* C17: start_session() on a running session changes nothing: no channel is
\* requested, no pump is launched, no event is emitted, nothing is raised.
C17_StartWhenRunning ==
    [][(running /\ StartCallStep)
       => (call' = Call("start_session", "noop") /\ UNCHANGED sessstate)]_vars

\* start_session() was called on the running session of the first start
C17_Witness ==
    /\ call = Call("start_session", "noop")
    /\ running
    /\ nstarts = 1
    /\ channel = 1
    /\ events = <<>>

\* C18: resize_terminal() never raises, also when the channel's resize
\* raises; it leaves the running flag, the queue and the events as they are,
\* and without a running session it does not call the channel.
C18_ResizeNeverRaises ==
    [][(call'.op = "resize_terminal" /\ call' # call)
       => /\ call'.result # "raised"
          /\ ~(running /\ channel # NoChannel) => call'.result = "noop"
          /\ UNCHANGED <<running, send_queue, channel, events, written>>]_vars

\* the channel's resize raised inside resize_terminal() and the session runs on
C18_Witness ==
    /\ call = Call("resize_terminal", "caught")
    /\ nfaults = 1
    /\ running
    /\ events = <<>>

\* resize_terminal() was called on a session that had stopped running
C18_WitnessNotRunning ==
    /\ call = Call("resize_terminal", "noop")
    /\ channel # NoChannel
    /\ ~running

\* receive pump g is between two loop checks: polling or reading the channel
Reading(g) == rpc[g] \in {"recv_ready", "recv", "exit_check"}

\* send pump g holds a buffer and is about to call channel.send
Writing(g) == spc[g] = "send"

\* C19: at any time at most one receive pump reads the channel and at most
\* one send pump writes to it.
C19_OneThreadPerDirection ==
    /\ Cardinality({g \in Pumps : Reading(g)}) <= 1
    /\ Cardinality({g \in Pumps : Writing(g)}) <= 1

----------------------------------------------------------------------------
(* Claim C20, under SpecFair *)

\* C20: once close() has set _running to False, the two threads of the
\* session eventually leave their loops and end.
C20_PumpsExitAfterClose ==
    \A g \in Pumps :
        (cpc = "join_receive" /\ receive_thread = g) ~> PumpsStopped(g)

----------------------------------------------------------------------------
(* Claims C21..C23 about the session, under Spec *)

\* C21: close() clears _running first and it stays cleared while close()
\* runs; neither join can hold close() back, whatever the threads do; when
\* close() has returned the channel has been closed, also with a thread still
\* alive; and close() does not raise, also when channel.close() does.
C21_CloseCompletes ==
    /\ cpc # "idle" => ~running
    /\ cpc = "join_receive" => ENABLED CloseJoinReceive
    /\ cpc = "join_send" => ENABLED CloseJoinSend
    /\ (close_returned /\ channel # NoChannel) => chan_closes >= 1
    /\ call.op = "close" => call.result \in {"ok", "caught"}

\* close() has returned after channel.close() raised, and the receive thread
\* of the session is still inside its loop
C21_Witness ==
    /\ close_returned
    /\ call = Call("close", "caught")
    /\ chan_closes = 1
    /\ channel = 1
    /\ rpc[1] = "recv_ready"

\* C22: a send thread that took the None of close() from the queue writes
\* nothing and leaves its loop at the next test; one whose get timed out goes
\* back to the loop test and writes nothing.
C22_SentinelExits ==
    [][\A g \in Pumps :
          /\ (spc[g] = "get" /\ spc'[g] \in {"loop", "after_none"}) => written' = written
          /\ (spc[g] = "after_none" /\ spc'[g] # "after_none")
                => (spc'[g] = "done" /\ written' = written)]_vars

----------------------------------------------------------------------------
(* Claims C29 and C30 about the session, under Spec *)

\* C29: when session_closed is emitted, the channel holds no chunk that has
\* not been read: all the remote end wrote before its exit status was ready
\* was emitted as data before.
C29_NoOutputLostAtExit ==
    [][(/\ Len(events') = Len(events) + 1
        /\ events'[Len(events')].kind = "Closed")
       => avail = 0]_vars

\* a step of thread pair g that is a call on the channel: recv_ready, recv,
\* exit_status_ready / recv_exit_status, or send
ChannelOpStep(g) ==
    \/ rpc[g] \in {"recv_ready", "recv", "exit_check"} /\ rpc'[g] # rpc[g]
    \/ spc[g] = "send" /\ spc'[g] # spc[g]

\* C30: once close() has returned, no thread of the session calls the
\* channel any more.
C30_NoChannelOpAfterClose ==
    [][close_returned => \A g \in Pumps : ~ChannelOpStep(g)]_vars

----------------------------------------------------------------------------
(* Claim C24, under SpecConn *)

\* the format after the chunks of a session, from the format it started with
RECURSIVE FormatAfter(_, _)
FormatAfter(fmt, cs) ==
    IF cs = <<>> THEN fmt
    ELSE FormatAfter(AppendText(fmt, <<>>, Head(cs)).fmt, Tail(cs))

\* C24: in a session the format is the one the chunks of that session give
\* when applied in order to the default format, light grey (229,229,229) on
\* black (0,0,0); at the start of the session it is the default format.
C24_AttributesPerSession ==
    nconnects >= 1
        => current_format = FormatAfter([fg |-> <<229, 229, 229>>, bg |-> <<0, 0, 0>>], chunks)

----------------------------------------------------------------------------
(* Claims C25..C27 about the terminal, under SpecTerm *)

\* the input in stream order, from index i with format fmt: every complete
\* sequence is taken where it stands (an 'm' sequence applies its codes from
\* left to right, another one does nothing), a control character is dropped,
\* and every other character is rendered with the format reached before it
RECURSIVE Stream(_, _, _)
Stream(text, i, fmt) ==
    IF i > Len(text) THEN [cells |-> <<>>, fmt |-> fmt]
    ELSE IF IsSeqStart(text, i) /\ FindCommand(text, i + 2) <= Len(text)
    THEN LET j == FindCommand(text, i + 2)
             codes == SplitSemi(SubSeq(text, i + 2, j - 1), <<>>)
         IN  Stream(text, j + 1,
                    IF text[j] = "m"
                    THEN ApplyParts([fmt |-> fmt, runs |-> <<>>], CodesParts(codes)).fmt
                    ELSE fmt)
    ELSE IF IsControl(text[i]) THEN Stream(text, i + 1, fmt)
    ELSE LET rest == Stream(text, i + 1, fmt)
         IN  [cells |-> <<<<text[i], fmt.fg, fmt.bg>>>> \o rest.cells, fmt |-> rest.fmt]

\* C25: append_text renders a chunk in stream order: every character has the
\* format given by the sequences before it in the chunk, applied in order to
\* the format the call started with, and the call leaves the format all the
\* sequences of the chunk give.
C25_StreamOrder ==
    [][(chunks' # chunks /\ chunks' # <<>>)
       => LET ref == Stream(chunks'[Len(chunks')], 1, current_format)
          IN  /\ Cells(runs') = Cells(runs) \o ref.cells
              /\ current_format' = ref.fmt]_vars

\* C26: no inserted text and no text part holds a control character (a
\* character below 0x20 other than newline, carriage return and tab).
C26_NoControlInRuns ==
    /\ \A k \in DOMAIN runs : \A n \in DOMAIN runs[k].s : ~IsControl(runs[k].s[n])
    /\ \A k \in DOMAIN parts : \A n \in DOMAIN parts[k].s : ~IsControl(parts[k].s[n])

\* a chunk with a lone ESC, a letter and a BEL was appended as the letter
C26_Witness ==
    /\ chunks = <<<<ESC, "a", BEL>>>>
    /\ parts = <<TextPart(<<"a">>)>>
    /\ Len(runs) = 1
    /\ runs[1].s = <<"a">>

\* the complete sequences ESC [ 2 c whose command character c is not 'm'
OtherSequences ==
    {<<ESC, "[", "2", c>> :
        c \in {"H", "f", "A", "B", "C", "D", "E", "F", "G", "J", "K", "S", "T", "@"}}

\* the text is empty or has printable characters only
PlainOrEmpty(text) == \A k \in 1..Len(text) : ~IsControl(text[k])

\* the text part of a text, none for the empty text
TextParts(text) == IF text = <<>> THEN <<>> ELSE <<TextPart(text)>>

\* C27: a chunk made of plain text, a complete sequence that does not end in
\* 'm', and plain text yields the two texts and nothing else, and leaves the
\* format as it was.
C27_OtherSequenceConsumed ==
    [][(chunks' # chunks /\ chunks' # <<>>)
       => LET chunk == chunks'[Len(chunks')]
          IN  \A k \in 1..Len(chunk) :
                (/\ k + 3 <= Len(chunk)
                 /\ SubSeq(chunk, k, k + 3) \in OtherSequences
                 /\ PlainOrEmpty(SubSeq(chunk, 1, k - 1))
                 /\ PlainOrEmpty(SubSeq(chunk, k + 4, Len(chunk))))
                   => /\ parts' = TextParts(SubSeq(chunk, 1, k - 1))
                                   \o TextParts(SubSeq(chunk, k + 4, Len(chunk)))
                      /\ current_format' = current_format]_vars

----------------------------------------------------------------------------
(* Claim C28, under SpecApp *)

\* the main window is in its disconnected state
TornDown ==
    /\ ssh_session = NoSession
    /\ ssh_client = NoClient
    /\ ~disconnect_enabled
    /\ connect_enabled

\* C28: the slot of a session_closed or error_occurred signal, run by the
\* GUI thread without anything the user does, closes the session and the
\* client the window holds, sets both references to None and puts the
\* window in its disconnected state.
C28_TeardownOnTerminalEvent ==
    [][(gui_queue # <<>> /\ gui_queue' = Tail(gui_queue))
       => /\ TornDown'
          /\ ssh_session # NoSession => ssh_session \in closed_sessions'
          /\ ssh_client # NoClient => ssh_client \in closed_clients']_vars

----------------------------------------------------------------------------
(* Claim C31, under SpecApp *)

\* the sessions start_session was called on (one per connection made)
StartedSessions == 1..nconnects

\* C31: every session that was started and is not the one the window
\* references has been closed: no started session is left running without
\* a reference, and the same for the clients.
C31_AtMostOneLivePair ==
    /\ \A c \in StartedSessions : c # ssh_session => c \in closed_sessions
    /\ \A c \in StartedSessions : c # ssh_client => c \in closed_clients

----------------------------------------------------------------------------
(* Claim C32, under SpecTerm *)

\* the text from index i with every complete sequence ESC [ ... command
\* character removed and every control character removed
RECURSIVE Stripped(_, _)
Stripped(text, i) ==
    IF i > Len(text) THEN <<>>
    ELSE IF IsSeqStart(text, i) /\ FindCommand(text, i + 2) <= Len(text)
    THEN Stripped(text, FindCommand(text, i + 2) + 1)
    ELSE IF IsControl(text[i]) THEN Stripped(text, i + 1)
    ELSE <<text[i]>> \o Stripped(text, i + 1)

\* the texts among the parts, one after another
RECURSIVE TextOf(_)
TextOf(ps) ==
    IF ps = <<>> THEN <<>>
    ELSE (IF Head(ps).k = "text" THEN Head(ps).s ELSE <<>>) \o TextOf(Tail(ps))

\* C32: the texts _parse_ansi returned for the last chunk, one after
\* another, are the chunk without its complete sequences and without its
\* control characters, and none of the texts is empty.
C32_TextPreserved ==
    chunks # <<>>
       => /\ TextOf(parts) = Stripped(LastChunk, 1)
          /\ \A k \in DOMAIN parts : parts[k].k = "text" => parts[k].s # <<>>

----------------------------------------------------------------------------
(* Claim C33, under SpecTerm *)

\* the texts _parse_ansi was given, and the one it is given next
ParsedTexts == {chunks[k] : k \in DOMAIN chunks} \cup {Decode(inbuf)}

\* C33: at every index of every text, one iteration of the outer loop of
\* _parse_ansi leaves the scan index strictly greater and at most the
\* length of the text, whichever branch it takes, so the loop ends after at
\* most len(text) iterations.
C33_ScanAdvances ==
    \A text \in ParsedTexts : \A i \in 1..Len(text) :
        /\ ScanStep(text, i)[2] > i
        /\ ScanStep(text, i)[2] <= Len(text) + 1

\* a chunk whose scan took the four branches: a control character, a
\* complete sequence, an incomplete sequence and regular text
C33_Witness ==
    /\ chunks = <<<<BEL, ESC, "[", "m", ESC, "[">>>>
    /\ ScanStep(LastChunk, 1) = <<<<>>, 2>>
    /\ ScanStep(LastChunk, 2) = <<<<ResetPart>>, 5>>
    /\ ScanStep(LastChunk, 5) = <<<<>>, 6>>
    /\ ScanStep(LastChunk, 6) = <<<<TextPart(<<"[">>)>>, 7>>
    /\ parts = <<ResetPart, TextPart(<<"[">>)>>

====
